---- MODULE Spec2Model ----
(***************************************************************************)
(* A model of the RAG_Eval services:                                       *)
(*   - HybridRagService.index_hybrid_collection  (hybrid_rag_service.py)   *)
(*   - HybridRagService.hybrid_search / sparse_search                      *)
(*   - DenseRagService.dense_search              (dense_rag_service.py)    *)
(*   - QdrantClientManager                       (qdrantclient.py)         *)
(*                                                                         *)
(* Four specifications share the variables:                                *)
(*   Spec          one call of index_hybrid_collection, any input          *)
(*   SpecScenario  the 130-chunk example call of index_hybrid_collection   *)
(*   SpecManager   any sequence of calls on one QdrantClientManager        *)
(*   SpecSearch    one search call, of any of the three searches, over any *)
(*                 collection content                                      *)
(***************************************************************************)
EXTENDS Integers, Sequences, FiniteSets, TLC

\* ------------------------------------------------------------------ bounds
MaxChunks == 3      \* longest chunk list of an indexing call
MaxBatch == 3       \* largest batch_size of an indexing call
MaxCalls == 4       \* longest sequence of calls on the manager
MaxPoints == 3      \* most points of the collection that is searched
MaxLimit == 2       \* largest limit given to hybrid_search
RrfK == 0           \* the offset k of the reciprocal rank 1 / (k + rank)

\* The default of the batch_size parameter.
DefaultBatchSize == 64

\* ------------------------------------------------------------- the state
VARIABLES
    \* index_hybrid_collection: arguments
    chunks,          \* the list of Documents
    batch_size,
    \* index_hybrid_collection: locals
    pc,              \* "call", "embed", "upload", "return", "done"
    batched_chunks,
    batch_idx,       \* enumerate() index of the current batch, from 0
    doc_i,           \* position in the current batch of the next doc, from 1
    points,          \* the PointStructs collected for the current batch
    invalid_chunks,
    ret,             \* the value returned: "none" until the call returns
    \* the embedding models and the vector store, as the call sees them
    denseRaises,     \* the Documents whose dense embedding raises
    sparseRaises,    \* the Documents whose sparse embedding raises
    uploadRaises,    \* the batch indexes whose upload_points raises
    denseCalls,      \* create_dense_vector calls so far, in order
    sparseCalls,     \* create_sparse_vector calls so far, in order
    uploadCalls,     \* upload_points calls so far, in order
    uuids,           \* uuid4 values drawn so far
    store,           \* the points held by the collection brain_id
    \* QdrantClientManager and the vector database behind it
    manager,         \* the instance's attributes: a function from their names
    constructed,     \* QdrantClient(url=...) constructions so far
    collections,     \* the database's collections, in order of creation
    createCalls,     \* client.create_collection calls so far
    history,         \* the manager's calls so far, each with its outcome
    \* the search services
    search           \* the last search call: its arguments and what it gave

indexVars == <<chunks, batch_size, pc, batched_chunks, batch_idx, doc_i, points,
               invalid_chunks, ret, denseRaises, sparseRaises, uploadRaises,
               denseCalls, sparseCalls, uploadCalls, uuids, store>>

managerVars == <<manager, constructed, collections, createCalls, history>>

vars == <<indexVars, managerVars, search>>

\* ---------------------------------------------------------------- helpers
None == "None"
Vec == "vector"

\* The document identifiers (metadata.pdf_id) in use.
PdfIds == <<"doc-42", "doc-7">>

\* A chunk: a langchain Document, with its text and its metadata.
Document(text, pdf_id) == [page_content |-> text, metadata |-> [pdf_id |-> pdf_id]]

\* The k-th chunk of an indexing call; the chunks come from both documents.
Chunk(k) == Document(k, PdfIds[(k % 2) + 1])

Min(a, b) == IF a < b THEN a ELSE b

Range(s) == {s[k] : k \in 1..Len(s)}

RECURSIVE Concat(_)
Concat(ss) == IF ss = <<>> THEN <<>> ELSE Head(ss) \o Concat(Tail(ss))

\* Python's s[a:b] for 0 <= a <= b.
PySlice(s, a, b) == SubSeq(s, a + 1, Min(b, Len(s)))

\* len(range(0, n, step)) for step > 0.
RangeLen(n, step) == (n + step - 1) \div step

\* [chunks[i : i + batch_size] for i in range(0, len(chunks), batch_size)]
BadBatches(cs, bs) ==
    [k \in 1..RangeLen(Len(cs), bs) |-> PySlice(cs, (k - 1) * bs, (k - 1) * bs + bs + 1)]
Batches(cs, bs) ==
    [k \in 1..RangeLen(Len(cs), bs) |-> PySlice(cs, (k - 1) * bs, (k - 1) * bs + bs)]

\* create_dense_vector / create_sparse_vector: the vector, or None after the
\* exception is caught.
DenseEmbedding(doc) == IF doc \in denseRaises THEN None ELSE Vec
SparseEmbedding(doc) == IF doc \in sparseRaises THEN None ELSE Vec

\* "if dense_embedding is not None and sparse_embedding is not None"
EitherEmbedded(dense, sparse) == dense # None \/ sparse # None
BothEmbedded(dense, sparse) == dense # None /\ sparse # None

\* payload={"content": doc.page_content, "metadata": doc.metadata}
Payload(doc) == [content |-> doc.page_content, metadata |-> doc.metadata]

PointStruct(id, dense, sparse, doc) ==
    [id |-> id, vector |-> [dense |-> dense, sparse |-> sparse], payload |-> Payload(doc)]

\* "return invalid_chunks == 0"
AlwaysTrue(invalid) == TRUE
ReturnValue(invalid) == invalid = 0

\* ------------------------------------------------------------ the searches
\* query_points without a limit argument returns at most this many points.
QueryDefaultLimit == 10

\* No search was made yet.
NoSearch == [kind |-> "none"]

\* The query_filter of the three searches: must metadata.pdf_id == pdf_id.
NoFilter(p, pdf_id) == TRUE
Matches(p, pdf_id) == p.payload.metadata.pdf_id = pdf_id

Matching(ps, pdf_id) == {p \in ps : Matches(p, pdf_id)}

\* The orders a search can rank the points of S in: the scores depend on the
\* query vector, so any order can be the one.
Perms(S) == {r \in [1..Cardinality(S) -> S] :
                \A a, b \in 1..Cardinality(S) : a # b => r[a] # r[b]}

\* The first n elements.
Take(r, n) == SubSeq(r, 1, Min(n, Len(r)))

\* A dense lookup ranks every candidate; a sparse lookup ranks the candidates
\* that share a term with the query.
DenseLookups(cands, n) == {Take(r, n) : r \in Perms(cands)}
SparseLookups(cands, n) == UNION {DenseLookups(S, n) : S \in SUBSET cands}

\* A search that raised to its caller, and one that returned points.
Raised(kind, pdf_id, limit) ==
    [kind |-> kind, pdf_id |-> pdf_id, limit |-> limit, outcome |-> "raised",
     sparse_prefetch |-> <<>>, dense_prefetch |-> <<>>, fused |-> <<>>,
     returned |-> <<>>]
Returned(kind, pdf_id, limit, sparse, dense, fused, docs) ==
    [kind |-> kind, pdf_id |-> pdf_id, limit |-> limit, outcome |-> "returned",
     sparse_prefetch |-> sparse, dense_prefetch |-> dense, fused |-> fused,
     returned |-> docs]

\* DenseRagService.dense_search, lines 30-46.
dense_search ==
    /\ search = NoSearch
    /\ \E pdf_id \in Range(PdfIds), raises \in BOOLEAN :
           IF raises
           THEN search' = Raised("dense", pdf_id, QueryDefaultLimit)
           ELSE \E results \in DenseLookups(Matching(store, pdf_id), QueryDefaultLimit) :
                    search' = Returned("dense", pdf_id, QueryDefaultLimit,
                                       <<>>, <<>>, <<>>, results)
    /\ UNCHANGED <<indexVars, managerVars>>

\* HybridRagService.sparse_search, lines 142-170.
sparse_search ==
    /\ search = NoSearch
    /\ \E pdf_id \in Range(PdfIds), raises \in BOOLEAN :
           IF raises
           THEN search' = Raised("sparse", pdf_id, QueryDefaultLimit)
           ELSE \E results \in SparseLookups(Matching(store, pdf_id), QueryDefaultLimit) :
                    search' = Returned("sparse", pdf_id, QueryDefaultLimit,
                                       <<>>, <<>>, <<>>, results)
    /\ UNCHANGED <<indexVars, managerVars>>

\* --- Reciprocal Rank Fusion, on fractions <<numerator, denominator>>
RatAdd(x, y) == <<x[1] * y[2] + y[1] * x[2], x[2] * y[2]>>
RatLess(x, y) == x[1] * y[2] < y[1] * x[2]

\* The rank of p in a list, from 1.
RankIn(r, p) == CHOOSE k \in 1..Len(r) : r[k] = p

\* What one list gives p: the reciprocal of its rank, or nothing.
Reciprocal(r, p) == IF p \in Range(r) THEN <<1, RrfK + RankIn(r, p)>> ELSE <<0, 1>>

\* A score that counts the first list twice.
RECURSIVE PlainSum(_, _)
PlainSum(lists, p) ==
    IF lists = <<>> THEN <<0, 1>>
    ELSE RatAdd(Reciprocal(Head(lists), p), PlainSum(Tail(lists), p))
FirstListTwice(lists, p) ==
    IF lists = <<>> THEN <<0, 1>>
    ELSE RatAdd(Reciprocal(Head(lists), p), PlainSum(lists, p))

\* The fused score of p: the sum of its reciprocal ranks across the lists.
RECURSIVE RrfScore(_, _)
RrfScore(lists, p) ==
    IF lists = <<>> THEN <<0, 1>>
    ELSE RatAdd(Reciprocal(Head(lists), p), RrfScore(Tail(lists), p))

FusedPoints(lists) == UNION {Range(lists[k]) : k \in 1..Len(lists)}

\* The fused rankings: the points of the lists by descending fused score, the
\* points of equal score in any order.
FusedRankings(lists) ==
    {r \in Perms(FusedPoints(lists)) :
        \A a, b \in 1..Len(r) : a < b => ~RatLess(RrfScore(lists, r[a]), RrfScore(lists, r[b]))}

\* The filter on a ranked list.
Filtered(r, pdf_id) == SelectSeq(r, LAMBDA p : Matches(p, pdf_id))

\* "limit=limit" of the fused query.
Unlimited(r, limit) == r
FusedTop(r, limit) == Take(r, limit)

\* What the fused query can give for two prefetch lists.
FusedResults(lists, pdf_id, limit) ==
    {FusedTop(Filtered(r, pdf_id), limit) : r \in FusedRankings(lists)}

\* llm_manager.rerank_docs: the documents it is given, in a new order.
Rerank(docs) == Perms(Range(docs))

\* HybridRagService.hybrid_search, lines 106-136.  The filter of the fused
\* query reaches the prefetch lookups (reaches = TRUE) or is applied to the
\* fused list alone; it is applied to the fused list in both cases.
hybrid_search ==
    /\ search = NoSearch
    /\ \E pdf_id \in Range(PdfIds), limit \in 1..MaxLimit, raises \in BOOLEAN :
           IF raises
           THEN search' = Raised("hybrid", pdf_id, limit)
           ELSE \E reaches \in BOOLEAN :
                LET cands == IF reaches THEN Matching(store, pdf_id) ELSE store
                IN  \E sparse \in SparseLookups(cands, limit),
                       dense \in DenseLookups(cands, limit) :
                        \E fused \in FusedResults(<<sparse, dense>>, pdf_id, limit) :
                            \E reranked_docs \in Rerank(fused) :
                                search' = Returned("hybrid", pdf_id, limit,
                                                   sparse, dense, fused, reranked_docs)
    /\ UNCHANGED <<indexVars, managerVars>>

\* -------------------------------------------------- QdrantClientManager
\* settings.HYBRID_COLLECTION, and the name of some other collection.
HYBRID_COLLECTION == "hybrid_collection"
OTHER_COLLECTION == "dense_collection"

\* The configuration _create_collection declares.
DenseSize == 384
HybridConfig ==
    [collection_name |-> HYBRID_COLLECTION,
     vectors_config |-> [dense |-> [size |-> DenseSize, distance |-> "Cosine"]],
     sparse_vectors_config |-> [sparse |-> "SparseVectorParams"]]
OtherConfig ==
    [collection_name |-> OTHER_COLLECTION,
     vectors_config |-> [dense |-> [size |-> DenseSize, distance |-> "Cosine"]],
     sparse_vectors_config |-> << >>]

\* The class has no __init__ and no class attributes: a new instance has no
\* attribute, neither client nor logger.
ManagerFresh == manager = << >>

HasAttr(name) == name \in DOMAIN manager

\* The handle made by the n-th QdrantClient(url=settings.QDRANT_URL).
Handle(n) == [client |-> "QdrantClient", url |-> "QDRANT_URL", nth |-> n]

SetAttr(obj, name, value) ==
    [a \in DOMAIN obj \cup {name} |-> IF a = name THEN value ELSE obj[a]]

\* get_client, lines 14-17, as a function of the instance: the instance after
\* the call, the constructions made, and the outcome (the handle returned, or
\* the AttributeError of reading an attribute the instance does not have).
GetClientResult ==
    IF ~HasAttr("client")
    THEN [manager |-> manager, made |-> 0, raised |-> TRUE, value |-> None]
    ELSE IF manager["client"] = None
         THEN LET m2 == SetAttr(manager, "client", Handle(constructed + 1))
              IN  IF ~HasAttr("logger")
                  THEN [manager |-> m2, made |-> 1, raised |-> TRUE, value |-> None]
                  ELSE [manager |-> m2, made |-> 1, raised |-> FALSE,
                        value |-> m2["client"]]
         ELSE [manager |-> manager, made |-> 0, raised |-> FALSE,
               value |-> manager["client"]]

\* client.collection_exists(collection_name=...)
CollectionExists(name) == \E k \in 1..Len(collections) : collections[k].collection_name = name

Outcome(op, r) ==
    [op |-> op,
     outcome |-> IF r.raised THEN "AttributeError" ELSE "returned",
     value |-> r.value]

get_client ==
    /\ Len(history) < MaxCalls
    /\ LET r == GetClientResult
       IN  /\ manager' = r.manager
           /\ constructed' = constructed + r.made
           /\ history' = Append(history, Outcome("get_client", r))
    /\ UNCHANGED <<collections, createCalls>>
    /\ UNCHANGED <<indexVars, search>>

\* create_hybrid_collection, lines 23-33, with _create_collection, lines 42-53.
create_hybrid_collection ==
    /\ Len(history) < MaxCalls
    /\ LET r == GetClientResult
       IN  /\ manager' = r.manager
           /\ constructed' = constructed + r.made
           /\ IF r.raised
              THEN /\ history' = Append(history, Outcome("create_hybrid_collection", r))
                   /\ UNCHANGED <<collections, createCalls>>
              ELSE IF ~CollectionExists(HYBRID_COLLECTION)
                   THEN /\ collections' = Append(collections, HybridConfig)
                        /\ createCalls' = createCalls + 1
                        /\ history' = Append(history,
                               [op |-> "create_hybrid_collection",
                                outcome |-> IF HasAttr("logger") THEN "returned"
                                            ELSE "AttributeError",
                                value |-> None])
                   ELSE /\ UNCHANGED <<collections, createCalls>>
                        /\ history' = Append(history,
                               [op |-> "create_hybrid_collection",
                                outcome |-> IF HasAttr("logger") THEN "returned"
                                            ELSE "AttributeError",
                                value |-> None])
    /\ UNCHANGED <<indexVars, search>>

\* No manager call was made (the other specifications leave it so).
ManagerAtRest ==
    /\ ManagerFresh
    /\ constructed = 0
    /\ collections = <<>>
    /\ createCalls = 0
    /\ history = <<>>

\* ------------------------------------------- index_hybrid_collection steps
\* Lines 29-36: the counter and the batches.
BeginIndex ==
    /\ pc = "call"
    /\ UNCHANGED <<managerVars, search>>
    /\ invalid_chunks' = 0
    /\ batched_chunks' = Batches(chunks, batch_size)
    /\ batch_idx' = 0
    /\ doc_i' = 1
    /\ points' = <<>>
    /\ pc' = IF Batches(chunks, batch_size) = <<>> THEN "return" ELSE "embed"
    /\ UNCHANGED <<chunks, batch_size, ret, denseRaises, sparseRaises, uploadRaises,
                   denseCalls, sparseCalls, uploadCalls, uuids, store>>

\* A variant that gives up on a Document once its dense embedding raised.
EmbedChunkSkipsSparse ==
    /\ pc = "embed"
    /\ UNCHANGED <<managerVars, search>>
    /\ LET batch == batched_chunks[batch_idx + 1]
           doc == batch[doc_i]
           dense_embedding == DenseEmbedding(doc)
           sparse_embedding == SparseEmbedding(doc)
       IN  /\ denseCalls' = Append(denseCalls, [batch |-> batch_idx, doc |-> doc])
           /\ sparseCalls' = IF dense_embedding = None THEN sparseCalls
                             ELSE Append(sparseCalls, [batch |-> batch_idx, doc |-> doc])
           /\ IF BothEmbedded(dense_embedding, sparse_embedding)
              THEN /\ points' = Append(points,
                          PointStruct(uuids + 1, dense_embedding, sparse_embedding, doc))
                   /\ uuids' = uuids + 1
                   /\ UNCHANGED invalid_chunks
              ELSE /\ invalid_chunks' = invalid_chunks + 1
                   /\ UNCHANGED <<points, uuids>>
           /\ IF doc_i = Len(batch)
              THEN pc' = "upload" /\ UNCHANGED doc_i
              ELSE doc_i' = doc_i + 1 /\ UNCHANGED pc
    /\ UNCHANGED <<chunks, batch_size, batched_chunks, batch_idx, ret, denseRaises,
                   sparseRaises, uploadRaises, uploadCalls, store>>

\* Lines 40-65: one pass of the inner loop, for one Document of the batch.
EmbedChunk ==
    /\ pc = "embed"
    /\ UNCHANGED <<managerVars, search>>
    /\ LET batch == batched_chunks[batch_idx + 1]
           doc == batch[doc_i]
           dense_embedding == DenseEmbedding(doc)
           sparse_embedding == SparseEmbedding(doc)
       IN  /\ denseCalls' = Append(denseCalls, [batch |-> batch_idx, doc |-> doc])
           /\ sparseCalls' = Append(sparseCalls, [batch |-> batch_idx, doc |-> doc])
           /\ IF BothEmbedded(dense_embedding, sparse_embedding)
              THEN /\ points' = Append(points,
                          PointStruct(uuids + 1, dense_embedding, sparse_embedding, doc))
                   /\ uuids' = uuids + 1
                   /\ UNCHANGED invalid_chunks
              ELSE /\ invalid_chunks' = invalid_chunks + 1
                   /\ UNCHANGED <<points, uuids>>
           /\ IF doc_i = Len(batch)
              THEN pc' = "upload" /\ UNCHANGED doc_i
              ELSE doc_i' = doc_i + 1 /\ UNCHANGED pc
    /\ UNCHANGED <<chunks, batch_size, batched_chunks, batch_idx, ret, denseRaises,
                   sparseRaises, uploadRaises, uploadCalls, store>>

\* The loop moves to the next batch, or leaves the loop.
NextBatch ==
    IF batch_idx + 1 < Len(batched_chunks)
    THEN /\ batch_idx' = batch_idx + 1
         /\ doc_i' = 1
         /\ points' = <<>>
         /\ pc' = "embed"
    ELSE /\ pc' = "return"
         /\ UNCHANGED <<batch_idx, doc_i, points>>

\* Lines 74-76: the outer handler ends the call.
OuterExcept ==
    /\ pc' = "done"
    /\ ret' = FALSE
    /\ UNCHANGED <<batch_idx, doc_i, points>>

\* A variant that catches the upload's exception inside the loop.
UploadBatchGoesOn ==
    /\ pc = "upload"
    /\ UNCHANGED <<managerVars, search>>
    /\ IF points # <<>>
       THEN /\ uploadCalls' = Append(uploadCalls, [batch |-> batch_idx, points |-> points])
            /\ store' = IF batch_idx \in uploadRaises THEN store ELSE store \cup Range(points)
       ELSE UNCHANGED <<uploadCalls, store>>
    /\ NextBatch
    /\ UNCHANGED <<chunks, batch_size, batched_chunks, invalid_chunks, ret, denseRaises,
                   sparseRaises, uploadRaises, denseCalls, sparseCalls, uuids>>

\* Lines 67-70: the upload of the batch's points, when there are any.
UploadBatch ==
    /\ pc = "upload"
    /\ UNCHANGED <<managerVars, search>>
    /\ IF points # <<>>
       THEN /\ uploadCalls' = Append(uploadCalls, [batch |-> batch_idx, points |-> points])
            /\ IF batch_idx \in uploadRaises
               THEN OuterExcept /\ UNCHANGED store
               ELSE /\ store' = store \cup Range(points)
                    /\ NextBatch
                    /\ UNCHANGED ret
       ELSE /\ NextBatch
            /\ UNCHANGED <<uploadCalls, store, ret>>
    /\ UNCHANGED <<chunks, batch_size, batched_chunks, invalid_chunks, denseRaises,
                   sparseRaises, uploadRaises, denseCalls, sparseCalls, uuids>>

\* Line 73.
ReturnResult ==
    /\ pc = "return"
    /\ UNCHANGED <<managerVars, search>>
    /\ ret' = ReturnValue(invalid_chunks)
    /\ pc' = "done"
    /\ UNCHANGED <<chunks, batch_size, batched_chunks, batch_idx, doc_i, points,
                   invalid_chunks, denseRaises, sparseRaises, uploadRaises, denseCalls,
                   sparseCalls, uploadCalls, uuids, store>>

IndexLocalsInit ==
    /\ pc = "call"
    /\ batched_chunks = <<>>
    /\ batch_idx = 0
    /\ doc_i = 1
    /\ points = <<>>
    /\ invalid_chunks = 0
    /\ ret = "none"
    /\ denseCalls = <<>>
    /\ sparseCalls = <<>>
    /\ uploadCalls = <<>>
    /\ uuids = 0
    /\ store = {}

\* No indexing call is under way (the other specifications leave it so).
IndexAtRest ==
    /\ chunks = <<>>
    /\ batch_size = DefaultBatchSize
    /\ denseRaises = {}
    /\ sparseRaises = {}
    /\ uploadRaises = {}
    /\ IndexLocalsInit

\* A call with any chunk list, any positive batch_size, and any pattern of
\* embedding and upload failures.
Init ==
    /\ \E n \in 0..MaxChunks : chunks = [k \in 1..n |-> Chunk(k)]
    /\ batch_size \in 1..MaxBatch
    /\ denseRaises \in SUBSET Range(chunks)
    /\ sparseRaises \in SUBSET Range(chunks)
    /\ uploadRaises \in SUBSET (0..(Len(chunks) - 1))
    /\ IndexLocalsInit
    /\ ManagerAtRest
    /\ search = NoSearch

Next == BeginIndex \/ EmbedChunk \/ UploadBatch \/ ReturnResult

Spec == Init /\ [][Next]_vars

\* The example call: 130 chunks, the default batch size, and chunk #70's sparse
\* embedding raising (#70 counted from 1, or from 0 as the log messages count).
InitScenario ==
    /\ chunks = [k \in 1..130 |-> Chunk(k)]
    /\ batch_size = DefaultBatchSize
    /\ denseRaises = {}
    /\ sparseRaises \in {{Chunk(70)}, {Chunk(71)}}
    /\ uploadRaises = {}
    /\ IndexLocalsInit
    /\ ManagerAtRest
    /\ search = NoSearch

SpecScenario == InitScenario /\ [][Next]_vars

\* Any collection content: up to MaxPoints points, each of one of the documents.
InitSearch ==
    /\ chunks = <<>>
    /\ batch_size = DefaultBatchSize
    /\ denseRaises = {}
    /\ sparseRaises = {}
    /\ uploadRaises = {}
    /\ pc = "call"
    /\ batched_chunks = <<>>
    /\ batch_idx = 0
    /\ doc_i = 1
    /\ points = <<>>
    /\ invalid_chunks = 0
    /\ ret = "none"
    /\ denseCalls = <<>>
    /\ sparseCalls = <<>>
    /\ uploadCalls = <<>>
    /\ \E n \in 0..MaxPoints : \E pdf \in [1..n -> Range(PdfIds)] :
           /\ store = {PointStruct(k, Vec, Vec, Document(k, pdf[k])) : k \in 1..n}
           /\ uuids = n
    /\ ManagerAtRest
    /\ search = NoSearch

NextSearch == dense_search \/ sparse_search \/ hybrid_search

SpecSearch == InitSearch /\ [][NextSearch]_vars

\* A new manager, in front of a database with or without the hybrid collection
\* and with or without another collection.
InitManager ==
    /\ ManagerFresh
    /\ constructed = 0
    /\ collections \in {<<>>, <<HybridConfig>>, <<OtherConfig>>,
                        <<OtherConfig, HybridConfig>>}
    /\ createCalls = 0
    /\ history = <<>>
    /\ IndexAtRest
    /\ search = NoSearch

NextManager == get_client \/ create_hybrid_collection

SpecManager == InitManager /\ [][NextManager]_vars

\* ------------------------------------------------------ the search's result
SearchReturned == search.kind # "none" /\ search.outcome = "returned"
HybridReturned == SearchReturned /\ search.kind = "hybrid"

\* C6: every point a dense, sparse or hybrid search returns is a point of the
\* collection whose metadata.pdf_id is the document identifier passed to the
\* search.
C6_ResultsMatchDocument ==
    SearchReturned =>
        \A k \in 1..Len(search.returned) :
            /\ search.returned[k].payload.metadata.pdf_id = search.pdf_id
            /\ search.returned[k] \in store

\* A hybrid search returned points although a point of another document was
\* ranked first by a prefetch lookup.
C6_Witness ==
    /\ HybridReturned
    /\ search.returned # <<>>
    /\ search.dense_prefetch # <<>>
    /\ search.dense_prefetch[1].payload.metadata.pdf_id # search.pdf_id

\* C7: a hybrid search with limit N returns at most N points: each prefetch
\* list, the fused list and the reranked list have at most N points.
C7_HybridAtMostLimit ==
    HybridReturned =>
        /\ Len(search.sparse_prefetch) <= search.limit
        /\ Len(search.dense_prefetch) <= search.limit
        /\ Len(search.fused) <= search.limit
        /\ Len(search.returned) <= search.limit

\* A hybrid search whose two prefetch lists hold more matching points than the
\* limit between them, and which returned exactly limit points.
C7_Witness ==
    /\ HybridReturned
    /\ Cardinality(Matching(FusedPoints(<<search.sparse_prefetch, search.dense_prefetch>>),
                            search.pdf_id)) > search.limit
    /\ Len(search.returned) = search.limit

\* The fused scores of two lists, as a function of the point.
RrfScores(lists) == [p \in FusedPoints(lists) |-> RrfScore(lists, p)]

\* C10: fusing the prefetch lists of a hybrid search in the order (dense,
\* sparse) gives every point the fused score that the order (sparse, dense)
\* gives it, and gives the same fused rankings and the same top-N lists; the
\* list the search fused is one of them.
C10_FusionCommutes ==
    HybridReturned =>
        LET sd == <<search.sparse_prefetch, search.dense_prefetch>>
            ds == <<search.dense_prefetch, search.sparse_prefetch>>
        IN  /\ RrfScores(ds) = RrfScores(sd)
            /\ FusedRankings(ds) = FusedRankings(sd)
            /\ FusedResults(ds, search.pdf_id, search.limit)
                   = FusedResults(sd, search.pdf_id, search.limit)
            /\ search.fused \in FusedResults(ds, search.pdf_id, search.limit)

\* A hybrid search whose prefetch lists rank two points in opposite orders and
\* a third point in one list only.
C10_Witness ==
    /\ HybridReturned
    /\ Len(search.sparse_prefetch) = 2
    /\ Len(search.dense_prefetch) = 2
    /\ search.sparse_prefetch[1] = search.dense_prefetch[2]
    /\ search.sparse_prefetch[2] # search.dense_prefetch[1]
    /\ Len(search.fused) = 2

\* ------------------------------------------------------ the manager's calls
GetCalls == {k \in 1..Len(history) : history[k].op = "get_client"}
CreateCalls == {k \in 1..Len(history) : history[k].op = "create_hybrid_collection"}

HybridCollections == {k \in 1..Len(collections) :
                         collections[k].collection_name = HYBRID_COLLECTION}

\* C8, as the specification words it: every get_client call returns a client
\* handle, all calls return the same handle, and once any call was made the
\* client has been constructed exactly once.
C8_AsClaimed ==
    /\ \A k \in GetCalls :
           /\ history[k].outcome = "returned"
           /\ history[k].value # None
           /\ history[k].value = Handle(1)
    /\ constructed <= 1
    /\ history # <<>> => constructed = 1

\* C9, as the specification words it: once create_hybrid_collection was called,
\* once or more, the database has exactly one hybrid collection, with the dense
\* (384, cosine) and sparse fields, and create_collection was called at most
\* once and never for a collection that was there.
C9_AsClaimed ==
    /\ createCalls <= 1
    /\ Cardinality(HybridCollections) <= 1
    /\ CreateCalls # {} =>
           /\ Cardinality(HybridCollections) = 1
           /\ \A k \in HybridCollections : collections[k] = HybridConfig

\* ------------------------------------------------ what a finished call did
Done == pc = "done"

DocsOf(calls) == {calls[k].doc : k \in 1..Len(calls)}

\* The points passed to upload_points, and their Documents.
PassedPoints == UNION {Range(uploadCalls[k].points) : k \in 1..Len(uploadCalls)}

PassedDocs == {doc \in Range(chunks) : \E p \in PassedPoints : p.payload = Payload(doc)}

DenseSucceeded(doc) == doc \in DocsOf(denseCalls) /\ doc \notin denseRaises
SparseSucceeded(doc) == doc \in DocsOf(sparseCalls) /\ doc \notin sparseRaises
DenseFailed(doc) == doc \in DocsOf(denseCalls) /\ doc \in denseRaises
SparseFailed(doc) == doc \in DocsOf(sparseCalls) /\ doc \in sparseRaises

\* The upload_points calls that raised, as indexes into uploadCalls.
RaisedUploads == {k \in 1..Len(uploadCalls) : uploadCalls[k].batch \in uploadRaises}

\* How many entries of a call log belong to batch b.
CountIn(calls, b) == Cardinality({k \in 1..Len(calls) : calls[k].batch = b})

\* How many points batch b passed to upload_points (0 when it made no call).
UploadedIn(b) ==
    LET ks == {k \in 1..Len(uploadCalls) : uploadCalls[k].batch = b}
    IN  IF ks = {} THEN 0 ELSE Len(uploadCalls[CHOOSE k \in ks : TRUE].points)

\* ------------------------------------------------------------------ claims
\* C1: when a call of index_hybrid_collection has ended, a chunk is among the
\* points passed to upload_points iff both its dense and its sparse embedding
\* succeeded, no passed point carries a None vector, and invalid_chunks is the
\* number of chunks with at least one failed embedding.
C1_UploadedIffBothEmbedded ==
    Done =>
        /\ \A doc \in Range(chunks) :
               doc \in PassedDocs <=> (DenseSucceeded(doc) /\ SparseSucceeded(doc))
        /\ \A p \in PassedPoints \cup store :
               p.vector.dense # None /\ p.vector.sparse # None
        /\ invalid_chunks =
               Cardinality({doc \in Range(chunks) : DenseFailed(doc) \/ SparseFailed(doc)})

\* A finished call in which one chunk lost only its dense embedding, another
\* only its sparse embedding, and a third was uploaded.
C1_Witness ==
    /\ Done
    /\ \E a, b, c \in Range(chunks) :
           /\ DenseFailed(a) /\ SparseSucceeded(a)
           /\ SparseFailed(b) /\ DenseSucceeded(b)
           /\ c \in PassedDocs

\* C2: index_hybrid_collection returns a boolean, and returns True exactly when
\* every input chunk was indexed (is in the store); a skipped chunk or an
\* exception of upload_points makes it return False.
C2_ReturnsTrueIffAllIndexed ==
    Done =>
        /\ ret \in BOOLEAN
        /\ ret = TRUE <=> (\A doc \in Range(chunks) : \E p \in store : p.payload = Payload(doc))
        /\ invalid_chunks > 0 => ret = FALSE
        /\ RaisedUploads # {} => ret = FALSE
        /\ ret = TRUE => (invalid_chunks = 0 /\ RaisedUploads = {})

\* A call that skipped no chunk and still returned False, because upload_points
\* raised after an earlier batch was stored.
C2_Witness ==
    /\ Done
    /\ ret = FALSE
    /\ invalid_chunks = 0
    /\ RaisedUploads # {}
    /\ store # {}

\* C3: the batches concatenate to the chunk list, every batch but the last has
\* batch_size chunks, and the last has len(chunks) mod batch_size chunks, or
\* batch_size when len(chunks) is a positive multiple of batch_size.
C3_BatchesPartitionChunks ==
    pc # "call" =>
        LET nb == Len(batched_chunks)
            n == Len(chunks)
        IN  /\ Concat(batched_chunks) = chunks
            /\ \A k \in 1..(nb - 1) : Len(batched_chunks[k]) = batch_size
            /\ nb > 0 => Len(batched_chunks[nb]) =
                   (IF n % batch_size = 0 THEN batch_size ELSE n % batch_size)
            /\ n = 0 <=> nb = 0

\* Batches built with a full batch followed by a shorter last one.
C3_Witness ==
    /\ pc # "call"
    /\ Len(batched_chunks) >= 2
    /\ Len(batched_chunks[Len(batched_chunks)]) < batch_size
    /\ batch_size > 1

\* C4, as the specification words it: the example call attempts 64, 65 and 1
\* chunks in its three batches, uploads 64, 64 and 1, counts 1 invalid chunk and
\* returns False.
C4_AsClaimed ==
    Done =>
        /\ Len(batched_chunks) = 3
        /\ <<CountIn(denseCalls, 0), CountIn(denseCalls, 1), CountIn(denseCalls, 2)>>
               = <<64, 65, 1>>
        /\ <<UploadedIn(0), UploadedIn(1), UploadedIn(2)>> = <<64, 64, 1>>
        /\ invalid_chunks = 1
        /\ ret = FALSE

\* C4, amended: the example call has batches of 64, 64 and 2 chunks, attempts all
\* of each, uploads 64, 63 and 2 points, counts 1 invalid chunk and returns False.
C4_Scenario ==
    Done =>
        /\ <<Len(batched_chunks[1]), Len(batched_chunks[2]), Len(batched_chunks[3])>>
               = <<64, 64, 2>>
        /\ Len(batched_chunks) = 3
        /\ <<CountIn(denseCalls, 0), CountIn(denseCalls, 1), CountIn(denseCalls, 2)>>
               = <<64, 64, 2>>
        /\ <<CountIn(sparseCalls, 0), CountIn(sparseCalls, 1), CountIn(sparseCalls, 2)>>
               = <<64, 64, 2>>
        /\ <<UploadedIn(0), UploadedIn(1), UploadedIn(2)>> = <<64, 63, 2>>
        /\ Cardinality(store) = 129
        /\ invalid_chunks = 1
        /\ ret = FALSE

\* The example call has ended, after three uploads and one skipped chunk.
C4_Witness ==
    /\ Done
    /\ Len(chunks) = 130
    /\ Len(uploadCalls) = 3
    /\ \E doc \in Range(chunks) : SparseFailed(doc) /\ doc \notin PassedDocs

\* C5: once upload_points has raised for batch k the call has ended with False,
\* no embedding was attempted and no upload issued for a batch after k, and the
\* points of the uploads before k are in the store.
C5_UploadFailureStopsIndexing ==
    \A r \in RaisedUploads :
        LET k == uploadCalls[r].batch
        IN  /\ Done /\ ret = FALSE
            /\ r = Len(uploadCalls)
            /\ \A j \in 1..Len(denseCalls) : denseCalls[j].batch <= k
            /\ \A j \in 1..Len(sparseCalls) : sparseCalls[j].batch <= k
            /\ \A j \in 1..Len(uploadCalls) : uploadCalls[j].batch <= k
            /\ \A j \in 1..(r - 1) : Range(uploadCalls[j].points) \subseteq store

\* upload_points raised for a batch that had a stored batch before it and an
\* unprocessed batch after it.
C5_Witness ==
    \E r \in RaisedUploads :
        /\ r > 1
        /\ store # {}
        /\ uploadCalls[r].batch + 1 < Len(batched_chunks)
        /\ Done

\* The batches whose inner loop has ended, and those whose upload step is past.
EmbeddedBatches ==
    {b \in 0..(Len(batched_chunks) - 1) :
        b < batch_idx \/ (b = batch_idx /\ pc \in {"upload", "return", "done"})}
UploadStepPast ==
    {b \in 0..(Len(batched_chunks) - 1) :
        b < batch_idx \/ (b = batch_idx /\ pc \in {"return", "done"})}

\* How many entries of a call log are for the Document doc.
CallsFor(calls, doc) == Cardinality({k \in 1..Len(calls) : calls[k].doc = doc})

\* The Documents of batch b whose two embeddings are generated.
Survivors(b) ==
    SelectSeq(batched_chunks[b + 1],
              LAMBDA doc : doc \notin denseRaises /\ doc \notin sparseRaises)

\* C11: every chunk of a batch whose loop has ended had its dense and its sparse
\* embedding attempted exactly once each, the sparse one also when the dense one
\* raised; no chunk has more than one attempt of either kind; every batch has at
\* most one upload_points call; and a batch past its upload step passed exactly
\* its chunks with both embeddings, in order, whatever failed beside them.
C11_EachAttemptOnceAndIndependent ==
    /\ \A b \in EmbeddedBatches : \A doc \in Range(batched_chunks[b + 1]) :
           /\ CallsFor(denseCalls, doc) = 1
           /\ CallsFor(sparseCalls, doc) = 1
    /\ \A doc \in Range(chunks) :
           /\ CallsFor(denseCalls, doc) <= 1
           /\ CallsFor(sparseCalls, doc) <= 1
           /\ CallsFor(sparseCalls, doc) = CallsFor(denseCalls, doc)
    /\ \A b \in 0..(Len(batched_chunks) - 1) : CountIn(uploadCalls, b) <= 1
    /\ \A b \in UploadStepPast :
           /\ CountIn(uploadCalls, b) = (IF Survivors(b) = <<>> THEN 0 ELSE 1)
           /\ \A k \in 1..Len(uploadCalls) :
                  uploadCalls[k].batch = b =>
                      [j \in 1..Len(uploadCalls[k].points) |-> uploadCalls[k].points[j].payload]
                          = [j \in 1..Len(Survivors(b)) |-> Payload(Survivors(b)[j])]

\* A finished call with a batch whose first chunk lost its dense embedding, had
\* its sparse embedding attempted all the same, and whose later chunk was
\* uploaded.
C11_Witness ==
    /\ Done
    /\ \E b \in UploadStepPast :
           LET batch == batched_chunks[b + 1]
           IN  /\ Len(batch) >= 2
               /\ DenseFailed(batch[1])
               /\ CallsFor(sparseCalls, batch[1]) = 1
               /\ batch[2] \in PassedDocs
               /\ batch[1] \notin PassedDocs

====
